---- MODULE Spec2Model ----
(***************************************************************************)
(* Model of the NIST compliance checker of src/function_app.py: the roll-up *)
(* functions calculate_overall_control_status / calculate_overall_confidence*)
(* the per-sub-requirement response processing of ComplianceChecker and the *)
(* request handler around them.                                             *)
(*                                                                          *)
(* Conventions.                                                             *)
(*  - A Python str is a sequence of symbols.  A symbol is one character or  *)
(*    one indivisible word: "FENCE" is three backticks, "json" the word     *)
(*    json, "Q" a double quote, "BS" a backslash, "WS" a space, and e.g.    *)
(*    "Fully Meets" the eleven characters of that literal.                  *)
(*  - A confidence is an integer number of tenths (7 is 0.7); the weights   *)
(*    1.2 / 1.0 / 0.8 are 12 / 10 / 8 tenths.  A quotient is an exact       *)
(*    fraction [num, den] in lowest terms.                                  *)
(***************************************************************************)
EXTENDS Integers, Sequences, FiniteSets, TLC

VARIABLES pc, env, upload, ci, si, sub_results, results, response, calls,
          dflt, devs, inp, out

vars == <<pc, env, upload, ci, si, sub_results, results, response, calls,
          dflt, devs, inp, out>>

----------------------------------------------------------------------------
(* Python str operations on symbol sequences                                *)

RECURSIVE LStrip(_)
LStrip(t) == IF t # <<>> /\ Head(t) = "WS" THEN LStrip(Tail(t)) ELSE t

RECURSIVE RStrip(_)
RStrip(t) ==
    IF t # <<>> /\ t[Len(t)] = "WS" THEN RStrip(SubSeq(t, 1, Len(t) - 1)) ELSE t

\* str.strip()
Strip(t) == RStrip(LStrip(t))

\* str.startswith(p)
StartsWith(t, p) == Len(t) >= Len(p) /\ SubSeq(t, 1, Len(p)) = p

\* str.endswith(p)
EndsWith(t, p) == Len(t) >= Len(p) /\ SubSeq(t, Len(t) - Len(p) + 1, Len(t)) = p

\* str.replace(p, ''): every non-overlapping occurrence of p, left to right
RECURSIVE RemoveAll(_, _)
RemoveAll(t, p) ==
    IF t = <<>> THEN <<>>
    ELSE IF StartsWith(t, p) THEN RemoveAll(SubSeq(t, Len(p) + 1, Len(t)), p)
    ELSE <<Head(t)>> \o RemoveAll(Tail(t), p)

\* s[1:-1]
DropEnds(t) == SubSeq(t, 2, Len(t) - 1)

----------------------------------------------------------------------------
(* JSON values as json.loads returns them.  One record shape for every      *)
(* value: t is the Python type, s the characters of a str, n the number in  *)
(* tenths (for a bool: 1 for True, 0 for False).                            *)

JStr(s)  == [t |-> "str",    s |-> s,    n |-> 0]
JNum(n)  == [t |-> "num",    s |-> <<>>, n |-> n]
JBool(b) == [t |-> "bool",   s |-> <<>>, n |-> IF b THEN 1 ELSE 0]
JNull    == [t |-> "null",   s |-> <<>>, n |-> 0]
JList    == [t |-> "list",   s |-> <<>>, n |-> 0]
JDict    == [t |-> "dict",   s |-> <<>>, n |-> 0]
\* an int literal beyond the range of a float (more than 308 digits)
JBigInt  == [t |-> "bigint", s |-> <<>>, n |-> 0]
\* the key is not in the object
Absent   == [t |-> "absent", s |-> <<>>, n |-> 0]

\* number literals and the value (in tenths) each denotes
NumTable == { <<"-0.5", -5>>, <<"0.0", 0>>, <<"0.5", 5>>, <<"0.7", 7>>,
              <<"0.9", 9>>, <<"1.0", 10>>, <<"1.5", 15>> }
NumTokens == { p[1] : p \in NumTable }
NumVal(tok) == (CHOOSE p \in NumTable : p[1] = tok)[2]
NumTok(n)   == (CHOOSE p \in NumTable : p[2] = n)[1]

\* the three keys ComplianceChecker reads with ai_result.get
KeyEvidence   == <<"evidence">>
KeyStatus     == <<"status">>
KeyConfidence == <<"confidence">>

\* a parsed JSON object, reduced to the keys the handler reads
NoFields == [evidence |-> Absent, status |-> Absent, confidence |-> Absent]

\* json.dumps of a str: quotes and backslashes are escaped, the rest kept
RECURSIVE Escape(_)
Escape(s) ==
    IF s = <<>> THEN <<>>
    ELSE (IF Head(s) \in {"Q", "BS"} THEN <<"BS", Head(s)>> ELSE <<Head(s)>>)
         \o Escape(Tail(s))

\* json.dumps of a scalar value
EncodeValue(v) ==
    CASE v.t = "str"    -> <<"Q">> \o Escape(v.s) \o <<"Q">>
      [] v.t = "num"    -> <<NumTok(v.n)>>
      [] v.t = "bigint" -> <<"BIGINT">>
      [] v.t = "bool"   -> IF v.n = 1 THEN <<"true">> ELSE <<"false">>
      [] v.t = "null"   -> <<"null">>
      [] v.t = "list"   -> <<"[", "]">>
      [] v.t = "dict"   -> <<"{", "}">>

EncodeMember(key, v) == <<"Q">> \o key \o <<"Q", ":", "WS">> \o EncodeValue(v)

RECURSIVE JoinWith(_, _)
JoinWith(parts, sep) ==
    IF parts = <<>> THEN <<>>
    ELSE IF Len(parts) = 1 THEN parts[1]
    ELSE parts[1] \o sep \o JoinWith(Tail(parts), sep)

\* json.dumps of the object {"evidence": e, "status": s, "confidence": c},
\* a key left out when its value is Absent
EncodeObject(o) ==
    LET m1 == IF o.evidence = Absent THEN <<>>
              ELSE <<EncodeMember(KeyEvidence, o.evidence)>>
        m2 == IF o.status = Absent THEN <<>>
              ELSE <<EncodeMember(KeyStatus, o.status)>>
        m3 == IF o.confidence = Absent THEN <<>>
              ELSE <<EncodeMember(KeyConfidence, o.confidence)>>
    IN  <<"{">> \o JoinWith(m1 \o m2 \o m3, <<",", "WS">>) \o <<"}">>

----------------------------------------------------------------------------
(* json.loads on the grammar                                                *)
(*   text   ::= ws value ws                                                 *)
(*   value  ::= object | scalar                                             *)
(*   object ::= "{" ws "}" | "{" ws member (ws "," ws member)* ws "}"       *)
(*   member ::= string ws ":" ws scalar                                     *)
(*   scalar ::= string | number | BIGINT | true | false | null              *)
(*            | "[" ws "]" | "{" ws "}"                                     *)
(*   string ::= Q (char | BS Q | BS BS)* Q                                  *)
(* A result is [ok, isdict, v, f, next]: ok is FALSE for a JSONDecodeError. *)

Fail == [ok |-> FALSE, isdict |-> FALSE, v |-> JNull, f |-> NoFields, next |-> 0]
Scalar(v, nx) == [ok |-> TRUE, isdict |-> FALSE, v |-> v, f |-> NoFields, next |-> nx]
Object(f, nx) == [ok |-> TRUE, isdict |-> TRUE, v |-> JDict, f |-> f, next |-> nx]

RECURSIVE SkipWS(_, _)
SkipWS(t, i) == IF i <= Len(t) /\ t[i] = "WS" THEN SkipWS(t, i + 1) ELSE i

At(t, i) == IF i >= 1 /\ i <= Len(t) THEN t[i] ELSE "EOF"

\* the characters of a string literal whose opening quote is before position i
RECURSIVE ScanString(_, _, _)
ScanString(t, i, acc) ==
    IF i > Len(t) THEN Fail
    ELSE IF t[i] = "Q" THEN Scalar(JStr(acc), i + 1)
    ELSE IF t[i] = "BS"
         THEN IF At(t, i + 1) \in {"Q", "BS"}
              THEN ScanString(t, i + 2, Append(acc, t[i + 1]))
              ELSE Fail
    ELSE ScanString(t, i + 1, Append(acc, t[i]))

ParseScalar(t, i) ==
    LET c == At(t, i) IN
    CASE c = "Q"         -> ScanString(t, i + 1, <<>>)
      [] c \in NumTokens -> Scalar(JNum(NumVal(c)), i + 1)
      [] c = "BIGINT"    -> Scalar(JBigInt, i + 1)
      [] c = "true"      -> Scalar(JBool(TRUE), i + 1)
      [] c = "false"     -> Scalar(JBool(FALSE), i + 1)
      [] c = "null"      -> Scalar(JNull, i + 1)
      [] c = "["         -> IF At(t, SkipWS(t, i + 1)) = "]"
                            THEN Scalar(JList, SkipWS(t, i + 1) + 1) ELSE Fail
      [] c = "{"         -> IF At(t, SkipWS(t, i + 1)) = "}"
                            THEN Scalar(JDict, SkipWS(t, i + 1) + 1) ELSE Fail
      [] OTHER           -> Fail

\* a later member with the same key replaces an earlier one
SetField(f, key, v) ==
    IF key = KeyEvidence THEN [f EXCEPT !.evidence = v]
    ELSE IF key = KeyStatus THEN [f EXCEPT !.status = v]
    ELSE IF key = KeyConfidence THEN [f EXCEPT !.confidence = v]
    ELSE f

RECURSIVE ParseMembers(_, _, _)
ParseMembers(t, i, f) ==
    IF At(t, i) # "Q" THEN Fail
    ELSE LET k == ScanString(t, i + 1, <<>>) IN
         IF ~k.ok THEN Fail
         ELSE LET c == SkipWS(t, k.next) IN
              IF At(t, c) # ":" THEN Fail
              ELSE LET val == ParseScalar(t, SkipWS(t, c + 1)) IN
                   IF ~val.ok THEN Fail
                   ELSE LET e  == SkipWS(t, val.next)
                            f2 == SetField(f, k.v.s, val.v)
                        IN  IF At(t, e) = "}" THEN Object(f2, e + 1)
                            ELSE IF At(t, e) = ","
                                 THEN ParseMembers(t, SkipWS(t, e + 1), f2)
                            ELSE Fail

ParseValue(t, i) ==
    IF At(t, i) = "{"
    THEN IF At(t, SkipWS(t, i + 1)) = "}"
         THEN Object(NoFields, SkipWS(t, i + 1) + 1)
         ELSE ParseMembers(t, SkipWS(t, i + 1), NoFields)
    ELSE ParseScalar(t, i)

\* json.loads(text): one value, nothing but whitespace around it
json_loads(t) ==
    LET r == ParseValue(t, SkipWS(t, 1)) IN
    IF r.ok /\ SkipWS(t, r.next) = Len(t) + 1 THEN r ELSE Fail

----------------------------------------------------------------------------
(* The catalog, reduced to what the handler iterates over: the controls in  *)
(* dict order and, for each, its sub-requirement ids in dict order.         *)

\* the catalog with the stem (A) of AC-1 kept as a sub-requirement of its own
NIST_CONTROLS_standalone_stem ==
    << [control_id |-> "AC-1",
        sub_requirements |-> << "AC-1(A)", "AC-1(A)(a)", "AC-1(A)(b)",
                                "AC-1(B)(a)", "AC-1(B)(b)" >>],
       [control_id |-> "AC-2",
        sub_requirements |-> << "AC-2(A)", "AC-2(B)", "AC-2(C)", "AC-2(D)",
                                "AC-2(E)", "AC-2(F)", "AC-2(G)", "AC-2(H)(a)",
                                "AC-2(H)(b)", "AC-2(H)(c)", "AC-2(I)(a)",
                                "AC-2(I)(b)", "AC-2(I)(c)", "AC-2(J)",
                                "AC-2(K)" >>],
       [control_id |-> "AC-3",
        sub_requirements |-> << "AC-3(A)" >>] >>

NIST_CONTROLS ==
    << [control_id |-> "AC-1",
        sub_requirements |-> << "AC-1(A)(a)", "AC-1(A)(b)", "AC-1(B)(a)",
                                "AC-1(B)(b)" >>],
       [control_id |-> "AC-2",
        sub_requirements |-> << "AC-2(A)", "AC-2(B)", "AC-2(C)", "AC-2(D)",
                                "AC-2(E)", "AC-2(F)", "AC-2(G)", "AC-2(H)(a)",
                                "AC-2(H)(b)", "AC-2(H)(c)", "AC-2(I)(a)",
                                "AC-2(I)(b)", "AC-2(I)(c)", "AC-2(J)",
                                "AC-2(K)" >>],
       [control_id |-> "AC-3",
        sub_requirements |-> << "AC-3(A)" >>] >>

\* the outline markers that open the lines of each control's 'definition', in
\* document order
ControlDefinitionMarkers ==
    [c \in {"AC-1", "AC-2", "AC-3"} |->
        CASE c = "AC-1" -> << "A", "a", "b", "B", "a", "b" >>
          [] c = "AC-2" -> << "A", "B", "C", "D", "E", "F", "G", "H", "a", "b",
                              "c", "I", "a", "b", "c", "J", "K" >>
          [] c = "AC-3" -> << "A" >>]

----------------------------------------------------------------------------
(* Literals of the handler                                                  *)

valid_statuses == {"Fully Meets", "Partially Meets", "Does Not Meet"}

\* 'No evidence found'
NoEvidence == <<"No evidence found">>
\* f"AI response parsing error: {...}"
JsonErrorText == <<"AI response parsing error">>
\* f"Unexpected parsing error: {...}"
ParseErrorText == <<"Unexpected parsing error">>
\* f"Processing error: {...}"
SubErrorText == <<"Processing error">>

SubResult(sub_id, evidence, status, confidence) ==
    [sub_id |-> sub_id, evidence |-> evidence, status |-> status,
     confidence |-> confidence]

----------------------------------------------------------------------------
(* Processing of one judge response (the body of the sub-requirement loop)  *)

\* StripFence that removes the markers wherever the text holds them
StripFence_always(rt) ==
    Strip(RemoveAll(RemoveAll(rt, <<"FENCE", "json">>), <<"FENCE">>))

\* if response_text.startswith('```json'):
\*     response_text = response_text.replace('```json','').replace('```','').strip()
StripFence(rt) ==
    IF StartsWith(rt, <<"FENCE", "json">>)
    THEN Strip(RemoveAll(RemoveAll(rt, <<"FENCE", "json">>), <<"FENCE">>))
    ELSE rt

\* response_text = response_text.strip()
\* if response_text.startswith('"') and response_text.endswith('"'):
\*     response_text = response_text[1:-1]
StripOuterQuotes(rt) ==
    LET s == Strip(rt) IN
    IF StartsWith(s, <<"Q">>) /\ EndsWith(s, <<"Q">>) THEN DropEnds(s) ELSE s

\* the text handed to json.loads
CleanResponse(content) == StripOuterQuotes(StripFence(Strip(content)))

\* str(evidence), evidence = ai_result.get('evidence', 'No evidence found')
EvidenceOf(v) ==
    CASE v.t = "absent" -> NoEvidence
      [] v.t = "str"    -> v.s
      [] v.t = "num"    -> <<NumTok(v.n)>>
      [] v.t = "bigint" -> <<"BIGINT">>
      [] v.t = "bool"   -> IF v.n = 1 THEN <<"True">> ELSE <<"False">>
      [] v.t = "null"   -> <<"None">>
      [] v.t = "list"   -> <<"[", "]">>
      [] v.t = "dict"   -> <<"{", "}">>

\* StatusOf without the test against valid_statuses
StatusOf_unchecked(v) ==
    IF v.t = "str" /\ Len(v.s) = 1 THEN v.s[1] ELSE "Does Not Meet"

\* status = ai_result.get('status', 'Does Not Meet')
\* if status not in valid_statuses: status = 'Does Not Meet'
StatusOf(v) ==
    IF v.t = "str" /\ Len(v.s) = 1 /\ v.s[1] \in valid_statuses
    THEN v.s[1]
    ELSE "Does Not Meet"

\* confidence = ai_result.get('confidence', 0.0)
\* if not isinstance(confidence, (int, float)): confidence = 0.0
\* (a bool is an int; the result still has the type the judge gave)
NumericOf(v) ==
    IF v.t \in {"num", "bigint", "bool"} THEN v ELSE JNum(0)

\* float(confidence) raises OverflowError for an int too large for a float
FloatRaises(v) == v.t = "bigint"

\* float(confidence), in tenths
FloatOf(v) == IF v.t = "bool" THEN 10 * v.n ELSE v.n

\* ParseResponse that reads a value that is no object as an empty object
ParseResponse_lenient(sub_id, content) ==
    LET r == json_loads(CleanResponse(content)) IN
    IF ~r.ok
    THEN SubResult(sub_id, JsonErrorText, "Error", 0)
    ELSE IF FloatRaises(NumericOf(r.f.confidence))
    THEN SubResult(sub_id, ParseErrorText, "Error", 0)
    ELSE SubResult(sub_id, EvidenceOf(r.f.evidence), StatusOf(r.f.status),
                   FloatOf(NumericOf(r.f.confidence)))

\* lines 512-576: the inner try with its two except clauses
ParseResponse(sub_id, content) ==
    LET r == json_loads(CleanResponse(content)) IN
    IF ~r.ok
    THEN \* except json.JSONDecodeError
         SubResult(sub_id, JsonErrorText, "Error", 0)
    ELSE IF ~r.isdict \/ FloatRaises(NumericOf(r.f.confidence))
    THEN \* except Exception: no .get on a non-dict, or float() overflow
         SubResult(sub_id, ParseErrorText, "Error", 0)
    ELSE SubResult(sub_id, EvidenceOf(r.f.evidence), StatusOf(r.f.status),
                   FloatOf(NumericOf(r.f.confidence)))

\* A judge outcome is [kind, text]: the call raised ("raise"), the message
\* content is None ("none", so .strip() raises), or it is the text ("text").
\* lines 488-590: the outer try of one sub-requirement
ProcessSubRequirement(sub_id, outcome) ==
    IF outcome.kind \in {"raise", "none"}
    THEN \* except Exception as sub_error
         SubResult(sub_id, SubErrorText, "Error", 0)
    ELSE ParseResponse(sub_id, outcome.text)

----------------------------------------------------------------------------
(* Roll-up of a control's sub-results                                       *)

\* [r for r in sub_results if r['status'] not in ['Error']]
valid_results(subs) == SelectSeq(subs, LAMBDA r : r.status \notin {"Error"})

\* sum(1 for r in valid_results if r['status'] == st)
RECURSIVE CountStatus(_, _)
CountStatus(subs, st) ==
    IF subs = <<>> THEN 0
    ELSE (IF Head(subs).status = st THEN 1 ELSE 0) + CountStatus(Tail(subs), st)

\* calculate_overall_control_status with the 80% threshold made strict
calculate_overall_control_status_strict(subs) ==
    LET valid         == valid_results(subs)
        total         == Len(valid)
        fully_meets   == CountStatus(valid, "Fully Meets")
        does_not_meet == CountStatus(valid, "Does Not Meet")
    IN  IF valid = <<>> THEN "Does Not Meet"
        ELSE IF does_not_meet = 0 /\ 10 * fully_meets > total * 8
        THEN "Fully Meets"
        ELSE IF 10 * does_not_meet > total * 5
        THEN "Does Not Meet"
        ELSE "Partially Meets"

\* calculate_overall_control_status without the test does_not_meet == 0
calculate_overall_control_status_no_dnm_check(subs) ==
    LET valid         == valid_results(subs)
        total         == Len(valid)
        fully_meets   == CountStatus(valid, "Fully Meets")
        does_not_meet == CountStatus(valid, "Does Not Meet")
    IN  IF valid = <<>> THEN "Does Not Meet"
        ELSE IF 10 * fully_meets >= total * 8
        THEN "Fully Meets"
        ELSE IF 10 * does_not_meet > total * 5
        THEN "Does Not Meet"
        ELSE "Partially Meets"

\* total * 0.8 and total * 0.5 are compared in tenths; the float products
\* agree with the exact ones for every total up to 40
calculate_overall_control_status(subs) ==
    IF subs = <<>> THEN "Does Not Meet"
    ELSE LET valid == valid_results(subs) IN
         IF valid = <<>> THEN "Does Not Meet"
         ELSE LET total         == Len(valid)
                  fully_meets   == CountStatus(valid, "Fully Meets")
                  does_not_meet == CountStatus(valid, "Does Not Meet")
              IN  IF does_not_meet = 0 /\ 10 * fully_meets >= total * 8
                  THEN "Fully Meets"
                  ELSE IF 10 * does_not_meet > total * 5
                  THEN "Does Not Meet"
                  ELSE "Partially Meets"

RECURSIVE GCD(_, _)
GCD(a, b) == IF b = 0 THEN a ELSE GCD(b, a % b)

Abs(x) == IF x < 0 THEN -x ELSE x

\* the exact quotient num / den (den > 0), in lowest terms
Frac(num, den) ==
    LET g == GCD(Abs(num), den) IN [num |-> num \div g, den |-> den \div g]

\* Weight without the branch for 'Does Not Meet'
Weight_no_penalty(status) == IF status = "Fully Meets" THEN 12 ELSE 10

\* weight = 1.0; 1.2 if 'Fully Meets'; 0.8 if 'Does Not Meet' (in tenths)
Weight(status) ==
    IF status = "Fully Meets" THEN 12
    ELSE IF status = "Does Not Meet" THEN 8
    ELSE 10

\* the loop of lines 335-343: weighted_sum in hundredths, total_weight in tenths
RECURSIVE WeightedSums(_, _, _)
WeightedSums(valid, weighted_sum, total_weight) ==
    IF valid = <<>>
    THEN [weighted_sum |-> weighted_sum, total_weight |-> total_weight]
    ELSE WeightedSums(Tail(valid),
                      weighted_sum + Head(valid).confidence * Weight(Head(valid).status),
                      total_weight + Weight(Head(valid).status))

\* calculate_overall_confidence returning weighted_sum without the division
calculate_overall_confidence_undivided(subs) ==
    LET valid == valid_results(subs) IN
    IF valid = <<>> THEN Frac(0, 1)
    ELSE Frac(WeightedSums(valid, 0, 0).weighted_sum, 100)

\* weighted_sum / total_weight as an exact fraction of 1
calculate_overall_confidence(subs) ==
    LET valid == valid_results(subs) IN
    IF valid = <<>> THEN Frac(0, 1)
    ELSE LET w == WeightedSums(valid, 0, 0)
         IN  Frac(w.weighted_sum, 10 * w.total_weight)

\* evidence_pieces without the test on the status
RECURSIVE evidence_pieces_with_errors(_)
evidence_pieces_with_errors(subs) ==
    IF subs = <<>> THEN <<>>
    ELSE LET r == Head(subs) IN
         (IF r.evidence # NoEvidence
          THEN << IF r.evidence # <<>> THEN r.evidence ELSE NoEvidence >>
          ELSE <<>>)
         \o evidence_pieces_with_errors(Tail(subs))

\* lines 597-602: the pieces, in order; an empty evidence is replaced by the
\* placeholder (str(r['evidence']) if r['evidence'] else 'No evidence found')
RECURSIVE evidence_pieces(_)
evidence_pieces(subs) ==
    IF subs = <<>> THEN <<>>
    ELSE LET r == Head(subs) IN
         (IF r.evidence # NoEvidence /\ r.status # "Error"
          THEN << IF r.evidence # <<>> THEN r.evidence ELSE NoEvidence >>
          ELSE <<>>)
         \o evidence_pieces(Tail(subs))

\* lines 604-605: " | ".join(evidence_pieces[:2]), else the default
overall_evidence(subs) ==
    LET pieces == evidence_pieces(subs) IN
    IF pieces # <<>>
    THEN JoinWith(SubSeq(pieces, 1, IF Len(pieces) < 2 THEN Len(pieces) ELSE 2),
                  <<" | ">>)
    ELSE NoEvidence

\* lines 471-479 and 592-607: the control_result of one control
ControlResult(control_id, subs) ==
    [control_id         |-> control_id,
     overall_status     |-> calculate_overall_control_status(subs),
     overall_confidence |-> calculate_overall_confidence(subs),
     overall_evidence   |-> overall_evidence(subs),
     sub_requirements   |-> subs]

\* lines 471-479 alone: a control whose catalog entry has no sub-requirements
DefaultControlResult(control_id) ==
    [control_id         |-> control_id,
     overall_status     |-> "Does Not Meet",
     overall_confidence |-> Frac(0, 1),
     overall_evidence   |-> NoEvidence,
     sub_requirements   |-> <<>>]

----------------------------------------------------------------------------
(* Bounds of the checked input spaces                                       *)

\* longest sub-result sequence whose statuses are varied
MaxStatusLen == 5
\* longest sub-result sequence whose confidences are varied
MaxConfLen == 3
\* longest sub-result sequence whose evidence texts are varied
MaxEvLen == 4
\* longest evidence string the judge puts in a JSON object
MaxEvidenceLen == 2
\* most sub-requirements of one request whose judge outcome differs from
\* the request's prevailing outcome
MaxDeviations == 1

BoundedSeq(S, n) == UNION { [1..k -> S] : k \in 0..n }

----------------------------------------------------------------------------
(* Inputs of the roll-up: sequences of sub-results                          *)

AllStatuses == valid_statuses \cup {"Error"}

\* statuses varied; an Error entry carries an error text as the handler writes it
StatusEntries ==
    { SubResult("sub", IF st = "Error" THEN SubErrorText ELSE <<"a">>, st,
                IF st = "Error" THEN 0 ELSE 5) : st \in AllStatuses }

\* statuses and confidences varied
ConfGrid == {0, 5, 9, 10}
ConfEntries ==
    { SubResult("sub", IF st = "Error" THEN JsonErrorText ELSE <<"a">>, st, c) :
        st \in AllStatuses, c \in ConfGrid }

\* evidence texts varied, among entries that count and entries that failed
EvTexts == { <<>>, NoEvidence, <<"a">>, <<"b">>, <<"c">> }
EvEntries ==
    { SubResult("sub", e, "Fully Meets", 10) : e \in EvTexts }
    \cup { SubResult("sub", e, "Error", 0) : e \in {SubErrorText, JsonErrorText} }

AggInputs ==
    BoundedSeq(StatusEntries, MaxStatusLen)
    \cup BoundedSeq(ConfEntries, MaxConfLen)
    \cup BoundedSeq(EvEntries, MaxEvLen)

----------------------------------------------------------------------------
(* Inputs of the response processing: judge outcomes.  Besides kind and     *)
(* text, which is all the handler sees, an outcome records how its text was *)
(* made: the object the judge meant (obj), the JSON text of that value      *)
(* alone (plain), the wrapping put around it (wrap) and what the text is    *)
(* (shape: "object", "nonobject", "garbage", "none", "raise").              *)

Outcome(kind, text, shape, wrap, obj, plain) ==
    [kind |-> kind, text |-> text, shape |-> shape, wrap |-> wrap,
     obj |-> obj, plain |-> plain]

Wrappers == {"plain", "padded", "quoted", "fence_json", "fence_json_tight",
             "fence_json_padded", "fence_bare"}

\* the response text that wraps the JSON text x
Wrap(w, x) ==
    CASE w = "plain"             -> x
      [] w = "padded"            -> <<"WS">> \o x \o <<"WS", "WS">>
      [] w = "quoted"            -> <<"Q">> \o x \o <<"Q">>
      [] w = "fence_json"        -> <<"FENCE", "json", "WS">> \o x \o <<"WS", "FENCE">>
      [] w = "fence_json_tight"  -> <<"FENCE", "json">> \o x \o <<"FENCE">>
      [] w = "fence_json_padded" -> <<"WS", "FENCE", "json", "WS">> \o x
                                    \o <<"WS", "FENCE", "WS">>
      [] w = "fence_bare"        -> <<"FENCE", "WS">> \o x \o <<"WS", "FENCE">>

ObjectOutcome(w, o) ==
    Outcome("text", Wrap(w, EncodeObject(o)), "object", w, o, EncodeObject(o))

EvidenceAlphabet == {"a", "Q", "BS", "FENCE", "json", "WS"}
EvidenceStrings == BoundedSeq(EvidenceAlphabet, MaxEvidenceLen)

StatusLiterals == { JStr(<<st>>) : st \in valid_statuses }

\* objects with all three fields well formed
GoodObjects ==
    { [evidence |-> JStr(e), status |-> s, confidence |-> JNum(c)] :
        e \in EvidenceStrings, s \in StatusLiterals, c \in {0, 5, 7, 10} }

\* objects whose fields are missing or of any type
FieldEvidence == { Absent, JStr(<<"a">>), JStr(<<>>), JStr(NoEvidence), JNull,
                   JNum(5), JList }
FieldStatus == StatusLiterals \cup
    { Absent, JStr(<<"fully meets">>), JStr(<<"Error">>), JStr(<<>>),
      JStr(<<"Fully Meets", "WS">>), JNum(10), JNull, JList, JBool(TRUE) }
FieldConfidence == { Absent, JNum(-5), JNum(0), JNum(5), JNum(10), JNum(15),
                     JBigInt, JStr(<<"0.9">>), JNull, JBool(TRUE), JList }
FieldObjects ==
    { [evidence |-> e, status |-> s, confidence |-> c] :
        e \in FieldEvidence, s \in FieldStatus, c \in FieldConfidence }

\* objects that are wrapped in every way
WrapObjects ==
    { [evidence |-> JStr(e), status |-> s, confidence |-> JNum(5)] :
        e \in EvidenceStrings,
        s \in {JStr(<<"Fully Meets">>), JStr(<<"Partially Meets">>)} }

\* JSON values that are not objects
NonObjects == { JStr(<<"a">>), JStr(<<>>), JNum(5), JNull, JList, JBool(TRUE),
                JBigInt }

\* texts that are not JSON, with or without the cleanup
GarbageTexts ==
    { <<>>, <<"WS">>, <<"a">>, <<"a", "b">>, <<"{">>, <<"}">>, <<"Q">>,
      <<"Q", "a">>, <<"FENCE">>, <<"FENCE", "json">>,
      <<"FENCE", "json", "FENCE">>, <<"{", "}", "a">>, <<"{", "}", "{", "}">>,
      <<"{", "Q", "status", "Q">>, <<"{", "Q", "status", "Q", ":">>,
      <<"{", "a", ":", "1.0", "}">>,
      <<"{", "Q", "status", "Q", ":", "Q", "Fully Meets", "Q", ",", "}">>,
      <<"a", "{", "}">> }

JudgeOutcomes ==
    { ObjectOutcome("plain", o) : o \in GoodObjects \cup FieldObjects }
    \cup { ObjectOutcome(w, o) : w \in Wrappers, o \in WrapObjects }
    \cup { Outcome("text", Wrap(w, EncodeValue(v)), "nonobject", w, NoFields,
                   EncodeValue(v)) :
             w \in {"plain", "padded", "fence_json"}, v \in NonObjects }
    \cup { Outcome("text", g, "garbage", "plain", NoFields, g) : g \in GarbageTexts }
    \cup { Outcome("none", <<>>, "none", "plain", NoFields, <<>>),
           Outcome("raise", <<>>, "raise", "plain", NoFields, <<>>) }

----------------------------------------------------------------------------
(* The request handler ComplianceChecker                                    *)

EnvKeys == {"AZURE_OPENAI_ENDPOINT", "AZURE_OPENAI_KEY",
            "AZURE_OPENAI_DEPLOYMENT", "AZURE_OPENAI_API_VERSION"}

Uploads == {"missing", "unreadable", "valid"}

NoResponse == [status |-> 0, body |-> "none"]
NoOut == [none |-> TRUE]

\* the judge outcomes a request can meet
HandlerOutcomes ==
    { Outcome("raise", <<>>, "raise", "plain", NoFields, <<>>),
      Outcome("none", <<>>, "none", "plain", NoFields, <<>>),
      Outcome("text", <<"a">>, "garbage", "plain", NoFields, <<"a">>),
      Outcome("text", <<"[", "]">>, "nonobject", "plain", NoFields, <<"[", "]">>),
      ObjectOutcome("plain", [evidence |-> JStr(<<"a">>),
                              status |-> JStr(<<"Fully Meets">>),
                              confidence |-> JNum(10)]),
      ObjectOutcome("plain", [evidence |-> JStr(<<>>),
                              status |-> JStr(<<"Does Not Meet">>),
                              confidence |-> JNum(5)]),
      ObjectOutcome("fence_json", [evidence |-> JStr(<<"b">>),
                                   status |-> JStr(<<"Partially Meets">>),
                                   confidence |-> JNum(15)]) }

\* the outcome most sub-requirements of one request get
PrevailingOutcomes ==
    { o \in HandlerOutcomes :
        \/ o.kind = "raise"
        \/ o.shape = "garbage"
        \/ o.shape = "object" /\ o.obj.status = JStr(<<"Fully Meets">>) }

CurrentControl == NIST_CONTROLS[ci]

\* lines 402-423: the environment check
CheckEnvironment ==
    /\ pc = "start"
    /\ IF ~(env["AZURE_OPENAI_ENDPOINT"] /\ env["AZURE_OPENAI_KEY"]
            /\ env["AZURE_OPENAI_DEPLOYMENT"])
       THEN /\ response' = [status |-> 500, body |-> "error: configuration incomplete"]
            /\ pc' = "done"
       ELSE /\ pc' = "files"
            /\ UNCHANGED response
    /\ UNCHANGED <<env, upload, ci, si, sub_results, results, calls, dflt, devs,
                   inp, out>>

\* lines 427-441: the uploaded file
GetUpload ==
    /\ pc = "files"
    /\ IF upload = "missing"
       THEN /\ response' = [status |-> 400, body |-> "error: no PDF file uploaded"]
            /\ pc' = "done"
       ELSE /\ pc' = "extract"
            /\ UNCHANGED response
    /\ UNCHANGED <<env, upload, ci, si, sub_results, results, calls, dflt, devs,
                   inp, out>>

\* lines 446-453: PdfReader raises on bytes that are no PDF
ExtractText ==
    /\ pc = "extract"
    /\ pc' = IF upload = "unreadable" THEN "except" ELSE "client"
    /\ UNCHANGED <<env, upload, ci, si, sub_results, results, response, calls,
                   dflt, devs, inp, out>>

\* lines 457-465: AzureOpenAI(...) raises when it is given no api_version and
\* finds none elsewhere
InitClient ==
    /\ pc = "client"
    /\ \/ pc' = "loop"
       \/ ~env["AZURE_OPENAI_API_VERSION"] /\ pc' = "except"
    /\ UNCHANGED <<env, upload, ci, si, sub_results, results, response, calls,
                   dflt, devs, inp, out>>

\* JudgeSubRequirement without the try around the judge call: a call that
\* raises, or a response without content, reaches the handler's outer except
JudgeSubRequirement_unguarded ==
    /\ pc = "loop"
    /\ si <= Len(CurrentControl.sub_requirements)
    /\ \E o \in HandlerOutcomes :
         /\ o = dflt \/ devs < MaxDeviations
         /\ devs' = IF o = dflt THEN devs ELSE devs + 1
         /\ LET sub_id == CurrentControl.sub_requirements[si] IN
            /\ calls' = Append(calls, [sub_id |-> sub_id, outcome |-> o])
            /\ IF o.kind \in {"raise", "none"}
               THEN pc' = "except" /\ UNCHANGED sub_results
               ELSE /\ pc' = pc
                    /\ sub_results' = Append(sub_results, ParseResponse(sub_id, o.text))
    /\ si' = si + 1
    /\ UNCHANGED <<env, upload, ci, results, response, dflt, inp, out>>

\* JudgeSubRequirement calling the judge again for the same sub-requirement
\* when the call raised or gave no content
JudgeSubRequirement_retry ==
    /\ pc = "loop"
    /\ si <= Len(CurrentControl.sub_requirements)
    /\ \E o \in HandlerOutcomes :
         /\ o = dflt \/ devs < MaxDeviations
         /\ devs' = IF o = dflt THEN devs ELSE devs + 1
         /\ LET sub_id == CurrentControl.sub_requirements[si] IN
            /\ calls' = Append(calls, [sub_id |-> sub_id, outcome |-> o])
            /\ IF o.kind \in {"raise", "none"}
               THEN si' = si /\ UNCHANGED sub_results
               ELSE /\ si' = si + 1
                    /\ sub_results' = Append(sub_results,
                                             ProcessSubRequirement(sub_id, o))
    /\ UNCHANGED <<pc, env, upload, ci, results, response, dflt, inp, out>>

\* lines 485-590: one pass of the sub-requirement loop
JudgeSubRequirement ==
    /\ pc = "loop"
    /\ si <= Len(CurrentControl.sub_requirements)
    /\ \E o \in HandlerOutcomes :
         /\ o = dflt \/ devs < MaxDeviations
         /\ devs' = IF o = dflt THEN devs ELSE devs + 1
         /\ LET sub_id == CurrentControl.sub_requirements[si] IN
            /\ sub_results' = Append(sub_results, ProcessSubRequirement(sub_id, o))
            /\ calls' = Append(calls, [sub_id |-> sub_id, outcome |-> o])
    /\ si' = si + 1
    /\ UNCHANGED <<pc, env, upload, ci, results, response, dflt, inp, out>>

\* lines 471-482 and 592-611: the control's result, once its loop is over
FinishControl ==
    /\ pc = "loop"
    /\ si > Len(CurrentControl.sub_requirements)
    /\ results' = Append(results,
                         IF CurrentControl.sub_requirements # <<>>
                         THEN ControlResult(CurrentControl.control_id, sub_results)
                         ELSE DefaultControlResult(CurrentControl.control_id))
    /\ sub_results' = <<>>
    /\ si' = 1
    /\ IF ci < Len(NIST_CONTROLS)
       THEN ci' = ci + 1 /\ pc' = "loop"
       ELSE ci' = ci /\ pc' = "respond"
    /\ UNCHANGED <<env, upload, response, calls, dflt, devs, inp, out>>

\* lines 613-624: the report
SendReport ==
    /\ pc = "respond"
    /\ response' = [status |-> 200, body |-> "results"]
    /\ pc' = "done"
    /\ UNCHANGED <<env, upload, ci, si, sub_results, results, calls, dflt, devs,
                   inp, out>>

\* lines 626-674: the first except clause names json.JSONEncoder, which is no
\* exception class, so matching it raises TypeError and the exception leaves
\* the handler; status 0 stands for "no response"
OuterExcept ==
    /\ pc = "except"
    /\ response' = [status |-> 0, body |-> "TypeError"]
    /\ pc' = "done"
    /\ UNCHANGED <<env, upload, ci, si, sub_results, results, calls, dflt, devs,
                   inp, out>>

Init ==
    /\ pc = "start"
    /\ env \in [EnvKeys -> BOOLEAN]
    /\ upload \in Uploads
    /\ ci = 1
    /\ si = 1
    /\ sub_results = <<>>
    /\ results = <<>>
    /\ response = NoResponse
    /\ calls = <<>>
    /\ dflt \in PrevailingOutcomes
    /\ devs = 0
    /\ inp = <<>>
    /\ out = NoOut

Next ==
    \/ CheckEnvironment
    \/ GetUpload
    \/ ExtractText
    \/ InitClient
    \/ JudgeSubRequirement
    \/ FinishControl
    \/ SendReport
    \/ OuterExcept

Spec == Init /\ [][Next]_vars

----------------------------------------------------------------------------
(* The roll-up on its own: any sequence of sub-results                      *)

HandlerIdle ==
    /\ env = [k \in EnvKeys |-> TRUE]
    /\ upload = "valid"
    /\ ci = 1
    /\ si = 1
    /\ sub_results = <<>>
    /\ results = <<>>
    /\ response = NoResponse
    /\ calls = <<>>
    /\ dflt = NoOut
    /\ devs = 0

InitAgg ==
    /\ pc = "agg_in"
    /\ inp \in AggInputs
    /\ out = NoOut
    /\ HandlerIdle

\* lines 592-607 applied to the sub-results inp
Aggregate ==
    /\ pc = "agg_in"
    /\ out' = ControlResult("AC-3", inp)
    /\ pc' = "agg_out"
    /\ UNCHANGED <<env, upload, ci, si, sub_results, results, response, calls,
                   dflt, devs, inp>>

NextAgg == Aggregate

SpecAgg == InitAgg /\ [][NextAgg]_vars

----------------------------------------------------------------------------
(* The response processing on its own: any judge outcome                    *)

InitNorm ==
    /\ pc = "norm_in"
    /\ inp \in JudgeOutcomes
    /\ out = NoOut
    /\ HandlerIdle

\* lines 488-590 applied to the judge outcome inp
Normalize ==
    /\ pc = "norm_in"
    /\ out' = ProcessSubRequirement("AC-3(A)", inp)
    /\ pc' = "norm_out"
    /\ UNCHANGED <<env, upload, ci, si, sub_results, results, response, calls,
                   dflt, devs, inp>>

NextNorm == Normalize

SpecNorm == InitNorm /\ [][NextNorm]_vars

----------------------------------------------------------------------------
(* Properties of the roll-up (checked under SpecAgg)                        *)

\* the positions of inp whose status is not Error
Counted == { i \in DOMAIN inp : inp[i].status # "Error" }
WithStatus(st) == { i \in Counted : inp[i].status = st }

RECURSIVE SumOver(_, _)
SumOver(S, f) ==
    IF S = {} THEN 0
    ELSE LET x == CHOOSE y \in S : TRUE IN f[x] + SumOver(S \ {x}, f)

\* C1: on the n > 0 entries that are not Error, with fully and none the
\* numbers of 'Fully Meets' and 'Does Not Meet' among them, the overall status
\* is 'Fully Meets' exactly when none = 0 and fully >= 0.8 n, otherwise
\* 'Does Not Meet' exactly when none > 0.5 n, otherwise 'Partially Meets'.
C1_StatusRule ==
    (pc = "agg_out" /\ Counted # {}) =>
        LET n     == Cardinality(Counted)
            fully == Cardinality(WithStatus("Fully Meets"))
            none  == Cardinality(WithStatus("Does Not Meet"))
        IN  out.overall_status =
                IF none = 0 /\ 5 * fully >= 4 * n THEN "Fully Meets"
                ELSE IF 2 * none > n THEN "Does Not Meet"
                ELSE "Partially Meets"

\* exactly 80% 'Fully Meets' and no 'Does Not Meet' gives 'Fully Meets'
C1_Witness ==
    /\ pc = "agg_out"
    /\ Cardinality(Counted) = 5
    /\ Cardinality(WithStatus("Fully Meets")) = 4
    /\ Cardinality(WithStatus("Partially Meets")) = 1
    /\ out.overall_status = "Fully Meets"

\* C2: with at least one entry that is not Error, the overall confidence is
\* sum(confidence_i * w_i) / sum(w_i) over the entries that are not Error,
\* w = 1.2, 1.0, 0.8 for 'Fully Meets', 'Partially Meets', 'Does Not Meet';
\* 'Fully Meets' at 0.9 with 'Does Not Meet' at 0.5 gives 0.74.
C2_WeightedMean ==
    (pc = "agg_out" /\ Counted # {}) =>
        LET w  == [i \in Counted |->
                      CASE inp[i].status = "Fully Meets"     -> 12
                        [] inp[i].status = "Partially Meets" -> 10
                        [] inp[i].status = "Does Not Meet"   -> 8]
            cw == [i \in Counted |-> inp[i].confidence * w[i]]
            sw  == SumOver(Counted, w)
            scw == SumOver(Counted, cw)
            r   == out.overall_confidence
        IN  /\ r.den > 0
            /\ r.num * 10 * sw = r.den * scw
            /\ ( /\ Cardinality(Counted) = 2
                 /\ \E i, j \in Counted :
                      /\ inp[i].status = "Fully Meets" /\ inp[i].confidence = 9
                      /\ inp[j].status = "Does Not Meet" /\ inp[j].confidence = 5 )
               => r.num * 100 = 74 * r.den

\* 0.9 'Fully Meets', an Error entry and 0.5 'Does Not Meet' give 0.74
C2_Witness ==
    /\ pc = "agg_out"
    /\ Len(inp) = 3
    /\ inp[1].status = "Fully Meets" /\ inp[1].confidence = 9
    /\ inp[2].status = "Error" /\ inp[2].confidence = 10
    /\ inp[3].status = "Does Not Meet" /\ inp[3].confidence = 5
    /\ out.overall_confidence = [num |-> 37, den |-> 50]

\* C3: sub-results that are empty or all Error give exactly 'Does Not Meet',
\* confidence 0.0 and evidence 'No evidence found'.
C3_NothingCounted ==
    (pc = "agg_out" /\ Counted = {}) =>
        /\ out.overall_status = "Does Not Meet"
        /\ out.overall_confidence = [num |-> 0, den |-> 1]
        /\ out.overall_evidence = NoEvidence

\* two or more sub-results, all Error, each with its error text
C3_Witness ==
    /\ pc = "agg_out"
    /\ Len(inp) >= 2
    /\ \A i \in DOMAIN inp :
         inp[i].status = "Error" /\ inp[i].evidence \in {SubErrorText, JsonErrorText}
    /\ out.overall_evidence = NoEvidence

\* C4: the overall evidence is the evidence texts of the first (at most) two
\* entries that are not Error and whose evidence is not 'No evidence found',
\* in order, joined by ' | ', each piece exactly its entry's text; when no
\* entry qualifies it is 'No evidence found'.
C4_EvidenceRule ==
    (pc = "agg_out") =>
        LET q == SelectSeq(inp, LAMBDA r : r.status # "Error" /\ r.evidence # NoEvidence)
        IN  out.overall_evidence =
                IF q = <<>> THEN NoEvidence
                ELSE IF Len(q) = 1 THEN q[1].evidence
                ELSE q[1].evidence \o <<" | ">> \o q[2].evidence

----------------------------------------------------------------------------
(* Properties of the response processing (checked under SpecNorm)           *)

\* the symbols a str of the model is made of are TLA+ strings
IsText(t) == t \in Seq(STRING)

\* C6: every judge outcome yields a well-formed verdict (a status among the
\* three literals and 'Error', a numeric confidence, a string evidence), and
\* every outcome that is no JSON object (no content, a failed call, text that
\* is not JSON, JSON that is not an object) yields 'Error' with confidence 0.0.
C6_NormalizerTotal ==
    (pc = "norm_out") =>
        /\ DOMAIN out = {"sub_id", "evidence", "status", "confidence"}
        /\ out.sub_id = "AC-3(A)"
        /\ out.status \in AllStatuses
        /\ out.confidence \in Int
        /\ IsText(out.evidence)
        /\ inp.shape \in {"none", "raise", "garbage", "nonobject"}
           => out.status = "Error" /\ out.confidence = 0

\* a JSON value that is not an object was processed
C6_Witness ==
    /\ pc = "norm_out"
    /\ inp.shape = "nonobject"
    /\ inp.text = <<"[", "]">>
    /\ out.status = "Error"
    /\ out.evidence = ParseErrorText

\* the judge meant an object with a string evidence, a valid status and a
\* confidence in [0,1]
WellFormedObject(o) ==
    /\ o.evidence.t = "str"
    /\ o.status \in StatusLiterals
    /\ o.confidence.t = "num" /\ o.confidence.n >= 0 /\ o.confidence.n <= 10

\* C7: the JSON encoding of {"evidence": e, "status": s, "confidence": c}, s a
\* valid status and c in [0,1], is processed to exactly evidence e, status s
\* and confidence c.
C7_RoundTrip ==
    (pc = "norm_out" /\ inp.shape = "object" /\ inp.wrap = "plain"
     /\ WellFormedObject(inp.obj)) =>
        /\ out.evidence = inp.obj.evidence.s
        /\ out.status = inp.obj.status.s[1]
        /\ out.confidence = inp.obj.confidence.n

\* an evidence that starts and ends with a quote, or is a fence marker
C7_Witness ==
    /\ pc = "norm_out"
    /\ inp.shape = "object" /\ inp.wrap = "plain"
    /\ inp.obj.evidence.s \in {<<"Q", "Q">>, <<"FENCE", "json">>}
    /\ inp.obj.confidence.n = 7
    /\ out.evidence = inp.obj.evidence.s

\* C8: a JSON object text x wrapped in a fenced code block, with or without
\* a language tag, is processed to the same verdict as x alone.
C8_FenceStripping ==
    (pc = "norm_out" /\ inp.shape = "object"
     /\ inp.wrap \in {"fence_json", "fence_json_tight", "fence_json_padded",
                      "fence_bare"}) =>
        out = ParseResponse("AC-3(A)", inp.plain)

\* C9 as stated: for a response that parses as a JSON object the recorded
\* status is the object's status when that is one of the three literals, and
\* 'Does Not Meet' when it is absent or anything else.
C9_StatusValidation ==
    (pc = "norm_out" /\ inp.shape = "object" /\ inp.wrap \in {"plain", "padded"}) =>
        out.status = IF inp.obj.status \in StatusLiterals
                     THEN inp.obj.status.s[1]
                     ELSE "Does Not Meet"

\* C9 amended: the same, unless the object's confidence is an integer too
\* large for a float, in which case the recorded status is 'Error'.
C9_StatusValidationAmended ==
    (pc = "norm_out" /\ inp.shape = "object" /\ inp.wrap \in {"plain", "padded"}) =>
        out.status = IF inp.obj.confidence = JBigInt THEN "Error"
                     ELSE IF inp.obj.status \in StatusLiterals
                     THEN inp.obj.status.s[1]
                     ELSE "Does Not Meet"

\* a status in another casing was recorded as 'Does Not Meet'
C9_Witness ==
    /\ pc = "norm_out"
    /\ inp.shape = "object" /\ inp.wrap = "plain"
    /\ inp.obj.status = JStr(<<"fully meets">>)
    /\ inp.obj.confidence = JNum(5)
    /\ out.status = "Does Not Meet"

----------------------------------------------------------------------------
(* Properties of the request handler (checked under Spec)                   *)

\* the sub-requirement ids of the catalog, in catalog order
RECURSIVE CatalogOrder(_)
CatalogOrder(controls) ==
    IF controls = <<>> THEN <<>>
    ELSE Head(controls).sub_requirements \o CatalogOrder(Tail(controls))

\* the verdicts of a report, control after control
RECURSIVE ReportVerdicts(_)
ReportVerdicts(rs) ==
    IF rs = <<>> THEN <<>>
    ELSE Head(rs).sub_requirements \o ReportVerdicts(Tail(rs))

\* the judge failed on this call: it raised, gave no content, or gave text
\* that is not a JSON object
Failed(o) == o.shape \in {"raise", "none", "garbage", "nonobject"}

\* C5: once the sub-requirement loop has started, whatever judge calls fail,
\* the request ends with a 200 report holding one result per catalog control
\* in catalog order, each with one verdict per catalog sub-requirement in
\* catalog order under its sub_id; each failed sub-requirement is recorded as
\* 'Error' with confidence 0.0 and every other verdict is what the judge gave
\* for that sub-requirement.
C5_FailureIsolation ==
    /\ calls # <<>> => pc \in {"loop", "respond", "done"}
    /\ (pc = "done" /\ calls # <<>>) =>
        /\ response.status = 200
        /\ Len(results) = Len(NIST_CONTROLS)
        /\ \A c \in DOMAIN results :
             /\ results[c].control_id = NIST_CONTROLS[c].control_id
             /\ Len(results[c].sub_requirements)
                  = Len(NIST_CONTROLS[c].sub_requirements)
             /\ \A k \in DOMAIN results[c].sub_requirements :
                  results[c].sub_requirements[k].sub_id
                    = NIST_CONTROLS[c].sub_requirements[k]
        /\ Len(calls) = Len(CatalogOrder(NIST_CONTROLS))
        /\ \A k \in DOMAIN calls :
             LET v == ReportVerdicts(results)[k]
                 o == calls[k].outcome
             IN  /\ v.sub_id = calls[k].sub_id
                 /\ IF Failed(o)
                    THEN v.status = "Error" /\ v.confidence = 0
                    ELSE /\ v.status = o.obj.status.s[1]
                         /\ v.confidence = o.obj.confidence.n
                         /\ v.evidence = o.obj.evidence.s

\* a report in which one judge call raised and another gave a verdict
C5_Witness ==
    /\ pc = "done"
    /\ response.status = 200
    /\ \E j, k \in DOMAIN calls :
         /\ calls[j].outcome.kind = "raise"
         /\ calls[k].outcome.shape = "object"
         /\ ReportVerdicts(results)[j].status = "Error"
         /\ ReportVerdicts(results)[k].status = "Fully Meets"

\* C10: in every report every verdict's confidence lies in [0,1], and is 0.0
\* when its status is Error, and every overall confidence lies in [0,1].
C10_ConfidenceRange ==
    (pc = "done" /\ response.status = 200) =>
        /\ \A k \in DOMAIN ReportVerdicts(results) :
             LET v == ReportVerdicts(results)[k] IN
             /\ v.confidence >= 0 /\ v.confidence <= 10
             /\ v.status = "Error" => v.confidence = 0
        /\ \A c \in DOMAIN results :
             LET r == results[c].overall_confidence IN
             r.den > 0 /\ r.num >= 0 /\ r.num <= r.den

\* a required configuration key is absent
ConfigurationIncomplete == \E k \in EnvKeys : ~env[k]

\* C11: if any required configuration key (endpoint, credential, deployment,
\* protocol version) is absent, the request ends with a 500 response, and no
\* upload is read, no text is extracted and no judge call is made.
C11_ConfigurationGate ==
    ConfigurationIncomplete =>
        /\ pc \notin {"extract", "client", "loop", "respond", "except"}
        /\ pc = "done" => response.status = 500
        /\ calls = <<>>

\* C12: with the configuration complete, a request without a 'document' file,
\* or whose document is not readable as a PDF, ends with status 400 and an
\* error body, and no judge call is made for it.
C12_UnusableUpload ==
    (~ConfigurationIncomplete /\ upload \in {"missing", "unreadable"}) =>
        /\ calls = <<>>
        /\ pc = "done" => response.status = 400

\* C13: every request ends with a response of status 200, 400 or 500; no
\* exception leaves the handler.
C13_OutermostBoundary ==
    pc = "done" => response.status \in {200, 400, 500}

\* the judge answered this call with a JSON object of status 'Fully Meets' and
\* confidence 1.0
FullyMet(o) ==
    /\ o.shape = "object"
    /\ o.obj.status = JStr(<<"Fully Meets">>)
    /\ o.obj.confidence = JNum(10)

\* C14: when a request for a valid document ends with its report and the judge
\* answered 'Fully Meets' with confidence 1.0 for every sub-requirement, every
\* control of the report has overall_status 'Fully Meets' and
\* overall_confidence 1.0.
C14_FullCompliance ==
    (/\ pc = "done"
     /\ response.status = 200
     /\ \A k \in DOMAIN calls : FullyMet(calls[k].outcome)) =>
        /\ Len(results) = Len(NIST_CONTROLS)
        /\ \A c \in DOMAIN results :
             /\ results[c].overall_status = "Fully Meets"
             /\ results[c].overall_confidence = [num |-> 1, den |-> 1]

\* a finished report for which every catalog sub-requirement was judged
\* 'Fully Meets' with confidence 1.0
C14_Witness ==
    /\ pc = "done"
    /\ response.status = 200
    /\ upload = "valid"
    /\ Len(calls) = Len(CatalogOrder(NIST_CONTROLS))
    /\ \A k \in DOMAIN calls : FullyMet(calls[k].outcome)
    /\ \A c \in DOMAIN results : results[c].overall_status = "Fully Meets"

----------------------------------------------------------------------------
(* Properties of the catalog                                                *)

LowercaseMarkers == {"a", "b", "c"}

\* the lowercase markers at the head of ms
RECURSIVE LeadingLowercase(_)
LeadingLowercase(ms) ==
    IF ms # <<>> /\ Head(ms) \in LowercaseMarkers
    THEN <<Head(ms)>> \o LeadingLowercase(Tail(ms))
    ELSE <<>>

\* the decomposition of a marker sequence: a stem yields one id per lowercase
\* marker under it, an uppercase marker alone yields its own id
RECURSIVE Decompose(_, _)
Decompose(control_id, ms) ==
    IF ms = <<>> THEN <<>>
    ELSE LET U    == control_id \o "(" \o Head(ms) \o ")"
             lows == LeadingLowercase(Tail(ms))
             rest == SubSeq(ms, Len(lows) + 2, Len(ms))
         IN  (IF lows = <<>> THEN << U >>
              ELSE [k \in 1..Len(lows) |-> U \o "(" \o lows[k] \o ")"])
             \o Decompose(control_id, rest)

\* control_id followed by one marker or by a stem and a marker
PrefixedBy(id, control_id) ==
    \E u \in {"A", "B", "C", "D", "E", "F", "G", "H", "I", "J", "K"} :
        \/ id = control_id \o "(" \o u \o ")"
        \/ \E l \in LowercaseMarkers :
             id = control_id \o "(" \o u \o ")(" \o l \o ")"

\* the sub_ids of a control's verdicts, in order
SubIds(subs) == [k \in DOMAIN subs |-> subs[k].sub_id]

\* C15: for every control of the catalog the ordered sub-requirement ids equal
\* the decomposition of its definition's outline markers (one id per lowercase
\* marker under a stem and no id for the stem; one id for an uppercase marker
\* alone), so every id is prefixed by its control's id; the ids the handler
\* judges and reports for a control are those.
C15_CatalogDecomposition ==
    /\ \A c \in DOMAIN NIST_CONTROLS :
         LET control == NIST_CONTROLS[c] IN
         /\ control.sub_requirements
              = Decompose(control.control_id,
                          ControlDefinitionMarkers[control.control_id])
         /\ \A k \in DOMAIN control.sub_requirements :
              PrefixedBy(control.sub_requirements[k], control.control_id)
    /\ \A c \in DOMAIN results :
         results[c].sub_requirements # <<>> =>
            SubIds(results[c].sub_requirements)
              = Decompose(results[c].control_id,
                          ControlDefinitionMarkers[results[c].control_id])

\* a report whose first control was judged under the two markers of stem (A)
\* and under no id of the stem itself
C15_Witness ==
    /\ pc = "done"
    /\ response.status = 200
    /\ Len(results) = Len(NIST_CONTROLS)
    /\ SubSeq(SubIds(results[1].sub_requirements), 1, 2)
         = << "AC-1(A)(a)", "AC-1(A)(b)" >>
    /\ \A k \in DOMAIN calls : calls[k].sub_id # "AC-1(A)"
    /\ SubIds(results[2].sub_requirements)[7] = "AC-2(G)"

----------------------------------------------------------------------------
(* The classifier determine_evidence_requirements on its own: any           *)
(* definition string.  A definition is a sequence of symbols: "WS" is a     *)
(* space, the other symbols are words or word groups without spaces at      *)
(* their ends.                                                              *)

\* "The information system"
TheInformationSystem == <<"The", "WS", "information system">>
\* "The organization"
TheOrganization == <<"The", "WS", "organization">>

\* determine_evidence_requirements without the strip() of line 21
determine_evidence_requirements_unstripped(control_definition) ==
    IF StartsWith(control_definition, TheInformationSystem)
    THEN [type |-> "technical_implementation", policy_max_score |-> "Partially Meets"]
    ELSE IF StartsWith(control_definition, TheOrganization)
    THEN [type |-> "organizational", policy_max_score |-> "Fully Meets"]
    ELSE [type |-> "mixed_or_unclear", policy_max_score |-> "Partially Meets"]

\* lines 12-46; of the returned dict, the fields 'type' and 'policy_max_score'
determine_evidence_requirements(control_definition) ==
    LET definition == Strip(control_definition) IN
    IF StartsWith(definition, TheInformationSystem)
    THEN [type |-> "technical_implementation", policy_max_score |-> "Partially Meets"]
    ELSE IF StartsWith(definition, TheOrganization)
    THEN [type |-> "organizational", policy_max_score |-> "Fully Meets"]
    ELSE [type |-> "mixed_or_unclear", policy_max_score |-> "Partially Meets"]

\* longest definition checked
MaxDefinitionLen == 5

DefinitionAlphabet == {"WS", "The", "information system", "organization", "s"}

Definitions == BoundedSeq(DefinitionAlphabet, MaxDefinitionLen)

InitClassify ==
    /\ pc = "cls_in"
    /\ inp \in Definitions
    /\ out = NoOut
    /\ HandlerIdle

\* determine_evidence_requirements applied to the definition inp
Classify ==
    /\ pc = "cls_in"
    /\ out' = determine_evidence_requirements(inp)
    /\ pc' = "cls_out"
    /\ UNCHANGED <<env, upload, ci, si, sub_results, results, response, calls,
                   dflt, devs, inp>>

NextClassify == Classify

SpecClassify == InitClassify /\ [][NextClassify]_vars

\* after its leading spaces, t goes on with the words of phrase
BeginsWith(t, phrase) ==
    \E i \in 1..Len(t) :
        /\ \A j \in 1..(i - 1) : t[j] = "WS"
        /\ i + Len(phrase) - 1 <= Len(t)
        /\ \A k \in 1..Len(phrase) : t[i + k - 1] = phrase[k]

\* C16: whatever the definition, the classification is one of three classes,
\* decided on the definition without its surrounding whitespace:
\* technical_implementation capped at 'Partially Meets' when it begins with
\* "The information system", organizational with 'Fully Meets' when it begins
\* with "The organization", mixed_or_unclear capped at 'Partially Meets'
\* otherwise; only the organizational class can reach 'Fully Meets'.
C16_EvidenceClassification ==
    pc = "cls_out" =>
        /\ out.type \in {"technical_implementation", "organizational",
                         "mixed_or_unclear"}
        /\ out.type = "technical_implementation"
             <=> BeginsWith(inp, TheInformationSystem)
        /\ out.type = "organizational" <=> BeginsWith(inp, TheOrganization)
        /\ out.policy_max_score
             = (IF out.type = "organizational" THEN "Fully Meets"
                ELSE "Partially Meets")

\* a definition with a leading space classified as organizational
C16_Witness ==
    /\ pc = "cls_out"
    /\ Len(inp) > Len(TheOrganization)
    /\ inp[1] = "WS"
    /\ out.type = "organizational"
    /\ out.policy_max_score = "Fully Meets"

----------------------------------------------------------------------------
(* Properties of the judge calls (checked under Spec)                       *)

\* the sub-requirement ids the judge was called for, in call order
CalledIds == [k \in DOMAIN calls |-> calls[k].sub_id]

\* C17: the judge calls of a request are made for the catalog's
\* sub-requirements in catalog order, one call per sub-requirement and each
\* answered and recorded before the next is made; a call that fails is not
\* repeated; the report is sent only when every sub-requirement of the catalog
\* has been judged once, and a request with complete configuration and a
\* readable document ends that way.
C17_JudgeCallProtocol ==
    LET order == CatalogOrder(NIST_CONTROLS) IN
    /\ Len(calls) <= Len(order)
    /\ CalledIds = SubSeq(order, 1, Len(calls))
    /\ pc \in {"loop", "respond"} \/ (pc = "done" /\ calls # <<>>) =>
         Len(calls) = Len(ReportVerdicts(results)) + Len(sub_results)
    /\ \A k \in DOMAIN calls :
         (Failed(calls[k].outcome) /\ k < Len(calls)) =>
            calls[k + 1].sub_id # calls[k].sub_id
    /\ pc = "respond" \/ (pc = "done" /\ response.status = 200) =>
         CalledIds = order
    /\ (pc = "done" /\ ~ConfigurationIncomplete /\ upload = "valid") =>
         response.status = 200 /\ CalledIds = order

\* a report sent after a run in which a judge call raised and the next
\* sub-requirement was judged after it
C17_Witness ==
    /\ pc = "done"
    /\ response.status = 200
    /\ CalledIds = CatalogOrder(NIST_CONTROLS)
    /\ \E k \in DOMAIN calls :
         /\ k < Len(calls)
         /\ calls[k].outcome.kind = "raise"
         /\ calls[k + 1].outcome.shape = "object"

----------------------------------------------------------------------------
(* The judgments of lines 485-590 run in any order.  The outcome the judge  *)
(* gives for each sub-requirement is fixed beforehand (inp); the loop body  *)
(* is run for the sub-requirements in any order, each pass appending its    *)
(* verdict to sub_results as it completes, and the report is assembled from *)
(* the verdicts per control, in catalog order.  The handler's sequential    *)
(* run on the same outcomes comes first, for comparison.                    *)

\* the controls judged: one with several sub-requirements and one with one
AnyOrderControls == << NIST_CONTROLS[1], NIST_CONTROLS[3] >>

AnyOrderIds == CatalogOrder(AnyOrderControls)

\* the outcomes a sub-requirement can get
AnyOrderOutcomes ==
    { o \in HandlerOutcomes :
        \/ o.kind = "raise"
        \/ o.shape = "object" /\ o.obj.status # JStr(<<"Does Not Meet">>) }

\* the verdict recorded under sub_id
VerdictOf(verdicts, sub_id) ==
    verdicts[CHOOSE j \in DOMAIN verdicts : verdicts[j].sub_id = sub_id]

\* the verdicts of a control in the order they were recorded
RecordedFor(verdicts, control) ==
    SelectSeq(verdicts,
              LAMBDA v : \E k \in DOMAIN control.sub_requirements :
                             v.sub_id = control.sub_requirements[k])

\* the verdicts of a control in the order of its catalog entry
InCatalogOrder(verdicts, control) ==
    [k \in DOMAIN control.sub_requirements |->
        VerdictOf(verdicts, control.sub_requirements[k])]

\* lines 468-611 as one function: the loop over the controls, each with the
\* loop over its sub-requirements; outcomes holds the judge outcomes of the
\* sub-requirements still to judge, in catalog order
RECURSIVE SequentialRun(_, _)
SequentialRun(controls, outcomes) ==
    IF controls = <<>> THEN <<>>
    ELSE LET control == Head(controls)
             n       == Len(control.sub_requirements)
             subs    == [k \in 1..n |->
                           ProcessSubRequirement(control.sub_requirements[k],
                                                 outcomes[k])]
         IN  << ControlResult(control.control_id, subs) >>
             \o SequentialRun(Tail(controls),
                              SubSeq(outcomes, n + 1, Len(outcomes)))

InitAnyOrder ==
    /\ pc = "seq_run"
    /\ inp \in [DOMAIN AnyOrderIds -> AnyOrderOutcomes]
    /\ out = NoOut
    /\ HandlerIdle

\* the handler's own run on the outcomes inp; its report is kept in out
RunSequentially ==
    /\ pc = "seq_run"
    /\ out' = SequentialRun(AnyOrderControls, inp)
    /\ pc' = "any_run"
    /\ UNCHANGED <<env, upload, ci, si, sub_results, results, response, calls,
                   dflt, devs, inp>>

\* lines 485-590 for a sub-requirement not judged yet, whichever it is
JudgeInAnyOrder ==
    /\ pc = "any_run"
    /\ \E k \in DOMAIN AnyOrderIds :
         /\ \A j \in DOMAIN calls : calls[j].sub_id # AnyOrderIds[k]
         /\ sub_results' = Append(sub_results,
                                  ProcessSubRequirement(AnyOrderIds[k], inp[k]))
         /\ calls' = Append(calls, [sub_id |-> AnyOrderIds[k], outcome |-> inp[k]])
    /\ UNCHANGED <<pc, env, upload, ci, si, results, response, dflt, devs, inp,
                   out>>

\* AssembleReport taking each control's verdicts in the order they completed
AssembleReport_completion_order ==
    /\ pc = "any_run"
    /\ Len(calls) = Len(AnyOrderIds)
    /\ results' = [c \in DOMAIN AnyOrderControls |->
                     ControlResult(AnyOrderControls[c].control_id,
                                   RecordedFor(sub_results, AnyOrderControls[c]))]
    /\ pc' = "any_out"
    /\ UNCHANGED <<env, upload, ci, si, sub_results, response, calls, dflt, devs,
                   inp, out>>

\* lines 592-611 for every control, on its verdicts put in catalog order
AssembleReport ==
    /\ pc = "any_run"
    /\ Len(calls) = Len(AnyOrderIds)
    /\ results' = [c \in DOMAIN AnyOrderControls |->
                     ControlResult(AnyOrderControls[c].control_id,
                                   InCatalogOrder(sub_results, AnyOrderControls[c]))]
    /\ pc' = "any_out"
    /\ UNCHANGED <<env, upload, ci, si, sub_results, response, calls, dflt, devs,
                   inp, out>>

NextAnyOrder ==
    \/ RunSequentially
    \/ JudgeInAnyOrder
    \/ AssembleReport

SpecAnyOrder == InitAnyOrder /\ [][NextAnyOrder]_vars

\* the position of a sub-requirement in the catalog order
PositionOf(sub_id) == CHOOSE k \in DOMAIN AnyOrderIds : AnyOrderIds[k] = sub_id

----------------------------------------------------------------------------
(* Order properties of the roll-up (checked under SpecAgg)                  *)

\* 'Does Not Meet' < 'Partially Meets' < 'Fully Meets'
Rank(status) ==
    CASE status = "Does Not Meet"   -> 0
      [] status = "Partially Meets" -> 1
      [] status = "Fully Meets"     -> 2

\* inp with the status of entry i replaced by st
WithStatusAt(i, st) == [inp EXCEPT ![i].status = st]

\* C19: for sub-results none of which is an Error, replacing one entry's
\* status by a better one never makes the overall status worse, and the
\* overall status is 'Fully Meets' only if no entry is 'Does Not Meet'.
C19_StatusMonotone ==
    (pc = "agg_out" /\ Counted = DOMAIN inp) =>
        /\ \A i \in DOMAIN inp : \A st \in valid_statuses :
             Rank(st) > Rank(inp[i].status) =>
                Rank(calculate_overall_control_status(WithStatusAt(i, st)))
                  >= Rank(out.overall_status)
        /\ out.overall_status = "Fully Meets" => WithStatus("Does Not Meet") = {}

\* sub-results rolled up to 'Does Not Meet' of which one 'Does Not Meet'
\* entry, once replaced by 'Fully Meets', lifts the overall status
C19_Witness ==
    /\ pc = "agg_out"
    /\ Counted = DOMAIN inp
    /\ Len(inp) >= 3
    /\ out.overall_status = "Does Not Meet"
    /\ \E i \in WithStatus("Does Not Meet") :
         calculate_overall_control_status(WithStatusAt(i, "Fully Meets"))
           = "Partially Meets"

----------------------------------------------------------------------------
(* Python float arithmetic: IEEE 754 binary64, round to nearest, ties to    *)
(* even, on the non-negative values the confidence roll-up meets (far from  *)
(* the ends of the exponent range).  A natural number is a sequence of      *)
(* limbs in base LimbBase, least significant first, without leading zero    *)
(* limbs; a float is m * 2^e with m an odd natural number, or m = 0.        *)

LimbBits == 15
\* 2^LimbBits
LimbBase == 32768
\* bits of a binary64 significand
MantissaBits == 53
\* extra quotient bits kept by the division before rounding
GuardBits == 55
\* bits of the significands the division works on: four whole limbs
DivisorBits == 60

RECURSIVE Pow2(_)
Pow2(k) == IF k = 0 THEN 1 ELSE 2 * Pow2(k - 1)

RECURSIVE BNorm(_)
BNorm(a) ==
    IF a # <<>> /\ a[Len(a)] = 0 THEN BNorm(SubSeq(a, 1, Len(a) - 1)) ELSE a

BLimb(a, i) == IF i <= Len(a) THEN a[i] ELSE 0

BRest(a) == IF a = <<>> THEN <<>> ELSE Tail(a)

RECURSIVE BAddC(_, _, _)
BAddC(a, b, carry) ==
    IF a = <<>> /\ b = <<>> THEN (IF carry = 0 THEN <<>> ELSE <<carry>>)
    ELSE LET s == BLimb(a, 1) + BLimb(b, 1) + carry
         IN  <<s % LimbBase>> \o BAddC(BRest(a), BRest(b), s \div LimbBase)

BAdd(a, b) == BAddC(a, b, 0)

\* a - b - borrow, for a >= b + borrow
RECURSIVE BSubB(_, _, _)
BSubB(a, b, borrow) ==
    IF a = <<>> THEN <<>>
    ELSE LET d == a[1] - BLimb(b, 1) - borrow
         IN  <<IF d < 0 THEN d + LimbBase ELSE d>>
             \o BSubB(Tail(a), BRest(b), IF d < 0 THEN 1 ELSE 0)

BSub(a, b) == BNorm(BSubB(a, b, 0))

RECURSIVE BCmpFrom(_, _, _)
BCmpFrom(a, b, i) ==
    IF i = 0 THEN 0
    ELSE IF a[i] # b[i] THEN (IF a[i] < b[i] THEN -1 ELSE 1)
    ELSE BCmpFrom(a, b, i - 1)

\* -1, 0 or 1 as a < b, a = b or a > b
BCmp(a, b) ==
    IF Len(a) # Len(b) THEN (IF Len(a) < Len(b) THEN -1 ELSE 1)
    ELSE BCmpFrom(a, b, Len(a))

RECURSIVE BMulSmallC(_, _, _)
BMulSmallC(a, k, carry) ==
    IF a = <<>> THEN (IF carry = 0 THEN <<>> ELSE <<carry>>)
    ELSE LET p == a[1] * k + carry
         IN  <<p % LimbBase>> \o BMulSmallC(Tail(a), k, p \div LimbBase)

\* a * k for a limb k
BMulSmall(a, k) == IF k = 0 THEN <<>> ELSE BMulSmallC(a, k, 0)

\* a * LimbBase^q
ShiftLimbs(a, q) == IF a = <<>> THEN <<>> ELSE [i \in 1..q |-> 0] \o a

RECURSIVE BMul(_, _)
BMul(a, b) ==
    IF a = <<>> \/ b = <<>> THEN <<>>
    ELSE BAdd(BMulSmall(a, b[1]), ShiftLimbs(BMul(a, Tail(b)), 1))

\* a * 2^s
BShl(a, s) == ShiftLimbs(BMulSmall(a, Pow2(s % LimbBits)), s \div LimbBits)

\* floor(a / 2^d)
BShr(a, d) ==
    LET q == d \div LimbBits
        r == d % LimbBits
        t == SubSeq(a, q + 1, Len(a))
    IN  BNorm([i \in 1..Len(t) |->
                 (t[i] \div Pow2(r))
                 + (BLimb(t, i + 1) % Pow2(r)) * Pow2(LimbBits - r)])

RECURSIVE BitLen(_)
BitLen(n) == IF n = 0 THEN 0 ELSE 1 + BitLen(n \div 2)

\* number of bits of a
BBitLen(a) == IF a = <<>> THEN 0 ELSE LimbBits * (Len(a) - 1) + BitLen(a[Len(a)])

\* bit i of a, bit 0 the least significant
BBit(a, i) == (BLimb(a, i \div LimbBits + 1) \div Pow2(i % LimbBits)) % 2

\* the bits of a below bit i are all zero
BLowZero(a, i) ==
    /\ \A j \in 1..(i \div LimbBits) : BLimb(a, j) = 0
    /\ BLimb(a, i \div LimbBits + 1) % Pow2(i % LimbBits) = 0

RECURSIVE TrailingZerosInt(_)
TrailingZerosInt(n) == IF n % 2 = 1 THEN 0 ELSE 1 + TrailingZerosInt(n \div 2)

\* number of zero bits at the low end of a # 0
RECURSIVE TrailingZeros(_)
TrailingZeros(a) ==
    IF a[1] = 0 THEN LimbBits + TrailingZeros(Tail(a))
    ELSE TrailingZerosInt(a[1])

\* m * 2^e with m made odd
Canon(m, e) ==
    IF m = <<>> THEN [m |-> <<>>, e |-> 0]
    ELSE LET t == TrailingZeros(m) IN [m |-> BShr(m, t), e |-> e + t]

\* the float nearest to (m + s) * 2^e, where 0 <= s < 1 and s # 0 iff sticky;
\* ties go to the even significand
Round53(m, e, sticky) ==
    LET n == BBitLen(m) IN
    IF n <= MantissaBits THEN Canon(m, e)
    ELSE LET d     == n - MantissaBits
             q     == BShr(m, d)
             half  == BBit(m, d - 1) = 1
             tie   == BLowZero(m, d - 1) /\ ~sticky
             up    == half /\ (~tie \/ q[1] % 2 = 1)
         IN  Canon(IF up THEN BAdd(q, <<1>>) ELSE q, e + d)

Min(a, b) == IF a < b THEN a ELSE b

\* x * y
FMul(x, y) ==
    IF x.m = <<>> THEN x
    ELSE IF y.m = <<>> THEN y
    ELSE Round53(BMul(x.m, y.m), x.e + y.e, FALSE)

\* x + y
FAdd(x, y) ==
    IF x.m = <<>> THEN y
    ELSE IF y.m = <<>> THEN x
    ELSE LET e == Min(x.e, y.e)
         IN  Round53(BAdd(BShl(x.m, x.e - e), BShl(y.m, y.e - e)), e, FALSE)

\* floor(r / d) for r < d * LimbBase, estimated from the leading limbs; when
\* the leading limb of d is at least LimbBase / 2 the estimate is the
\* quotient or exceeds it by at most 2
EstimateLimb(r, d) ==
    LET n == Len(d)
        e == (BLimb(r, n + 1) * LimbBase + BLimb(r, n)) \div d[n]
    IN  IF e > LimbBase - 1 THEN LimbBase - 1 ELSE e

\* the largest limb s <= t with s * d <= r
RECURSIVE CorrectLimb(_, _, _)
CorrectLimb(r, d, t) ==
    IF BCmp(BMulSmall(d, t), r) <= 0 THEN t ELSE CorrectLimb(r, d, t - 1)

\* long division, most significant limb first: limbs i down to 1 of a are
\* still to divide, q holds the quotient limbs found, r the remainder so far
RECURSIVE BDivStep(_, _, _, _, _)
BDivStep(a, i, d, q, r) ==
    IF i = 0 THEN [q |-> BNorm(q), r |-> r]
    ELSE LET r2 == BNorm(<<a[i]>> \o r)
             t  == CorrectLimb(r2, d, EstimateLimb(r2, d))
         IN  BDivStep(a, i - 1, d, <<t>> \o q, BSub(r2, BMulSmall(d, t)))

\* quotient and remainder of a by d # 0
BDivMod(a, d) == BDivStep(a, Len(a), d, <<>>, <<>>)

\* what x / 0 raises
ZeroDivisionError == [raised |-> "ZeroDivisionError"]

\* x / y: both significands are brought to DivisorBits bits, the quotient is
\* taken with GuardBits more bits and rounded
FDiv(x, y) ==
    IF y.m = <<>> THEN ZeroDivisionError
    ELSE IF x.m = <<>> THEN x
    ELSE LET sa == DivisorBits - BBitLen(x.m)
             sb == DivisorBits - BBitLen(y.m)
             qr == BDivMod(BShl(x.m, sa + GuardBits), BShl(y.m, sb))
         IN  Round53(qr.q, (x.e - sa) - (y.e - sb) - GuardBits, qr.r # <<>>)

\* the float of a small int
FromInt(n) == Canon(IF n = 0 THEN <<>> ELSE <<n>>, 0)

\* the float a decimal literal with one decimal place denotes: the float
\* nearest to tenths / 10
FromTenths(tenths) == FDiv(FromInt(tenths), FromInt(10))

\* -1, 0 or 1 as x < y, x = y or x > y
FCmp(x, y) ==
    LET e == Min(x.e, y.e)
    IN  BCmp(BShl(x.m, x.e - e), BShl(y.m, y.e - e))

----------------------------------------------------------------------------
(* The confidence roll-up in the arithmetic of the code                     *)

\* 0 and 0.0
Zero == FromInt(0)

\* the loop of lines 335-343 on floats; a confidence of the model, in tenths,
\* is the float its decimal literal denotes
RECURSIVE WeightedSumsBinary64(_, _, _)
WeightedSumsBinary64(valid, weighted_sum, total_weight) ==
    IF valid = <<>>
    THEN [weighted_sum |-> weighted_sum, total_weight |-> total_weight]
    ELSE LET weight == FromTenths(Weight(Head(valid).status))
         IN  WeightedSumsBinary64(
                 Tail(valid),
                 FAdd(weighted_sum,
                      FMul(FromTenths(Head(valid).confidence), weight)),
                 FAdd(total_weight, weight))

\* calculate_overall_confidence dividing by the number of valid results
calculate_overall_confidence_binary64_by_count(subs) ==
    LET valid == valid_results(subs) IN
    IF valid = <<>> THEN Zero
    ELSE FDiv(WeightedSumsBinary64(valid, Zero, Zero).weighted_sum,
              FromInt(Len(valid)))

\* lines 325-345 on floats
calculate_overall_confidence_binary64(subs) ==
    LET valid == valid_results(subs) IN
    IF valid = <<>> THEN Zero
    ELSE LET w == WeightedSumsBinary64(valid, Zero, Zero)
         IN  FDiv(w.weighted_sum, w.total_weight)

\* longest sequence of sub-results rolled up in float arithmetic
MaxFloatLen == 2

InitFloat ==
    /\ pc = "flt_in"
    /\ inp \in BoundedSeq(ConfEntries, MaxFloatLen)
    /\ out = NoOut
    /\ HandlerIdle

\* calculate_overall_confidence applied to the sub-results inp
AverageBinary64 ==
    /\ pc = "flt_in"
    /\ out' = calculate_overall_confidence_binary64(inp)
    /\ pc' = "flt_out"
    /\ UNCHANGED <<env, upload, ci, si, sub_results, results, response, calls,
                   dflt, devs, inp>>

NextFloat == AverageBinary64

SpecFloat == InitFloat /\ [][NextFloat]_vars

\* the least and the greatest confidence among the entries that count
MinConfidence ==
    CHOOSE c \in { inp[i].confidence : i \in Counted } :
        \A i \in Counted : c <= inp[i].confidence
MaxConfidence ==
    CHOOSE c \in { inp[i].confidence : i \in Counted } :
        \A i \in Counted : c >= inp[i].confidence

\* the total weight the division of line 345 divides by
TotalWeight == WeightedSumsBinary64(valid_results(inp), Zero, Zero).total_weight

\* x * (1 + 2^-50) and x * (1 - 2^-50), exactly
SlightlyAbove(x) ==
    [m |-> BMul(x.m, BAdd(BShl(<<1>>, 50), <<1>>)), e |-> x.e - 50]
SlightlyBelow(x) ==
    [m |-> BMul(x.m, BSub(BShl(<<1>>, 50), <<1>>)), e |-> x.e - 50]

====
